---- MODULE Spec2Model ----
(***************************************************************************)
(* A model of pygdf/gpuarrow.py: the GPU Arrow reader.                     *)
(*                                                                         *)
(* GpuArrowReader(gpu_data) opens the libgdf IPC parser on a device byte   *)
(* buffer, decodes the schema the parser emits as JSON, slices the data    *)
(* region off the buffer and wraps every schema node in a                  *)
(* GpuArrowNodeReader, whose accessors cut byte windows out of the data    *)
(* region and reinterpret them as typed device arrays.                     *)
(*                                                                         *)
(* A device array is modelled by its geometry only: the byte offset of its *)
(* first element inside the buffer handed to the reader, its element       *)
(* count, its stride and its dtype.  No accessor of the file reads or      *)
(* writes the bytes themselves.                                            *)
(***************************************************************************)
EXTENDS Integers, Sequences, FiniteSets, TLC

VARIABLES
    gpu_data,     \* GpuArrowReader._gpu_data: the device array given to __init__
    numpy_attrs,  \* the sized scalar types the numpy build exposes as attributes
    ipc,          \* what libgdf's IPC parser reports for the buffer
    parser,       \* the IPCParser resource: "none", "open" or "closed"
    calls,        \* number of calls made to each libgdf entry point
    pc,           \* position of the constructor; "ready" once it has returned
    cursor,       \* index of the schema node _open's loop is at
    outdct,       \* the decoded schema (json.loads of the parser's JSON)
    dataptr,      \* the data region: gpu_data[dataoffset:]
    _nodes,       \* GpuArrowReader._nodes
    exc,          \* the exception that left the constructor, if any
    ret           \* outcome of the last call of the public API

vars == <<gpu_data, numpy_attrs, ipc, parser, calls, pc, cursor, outdct,
          dataptr, _nodes, exc, ret>>

(***************************************************************************)
(* Bounds of the model.                                                    *)
(***************************************************************************)
MaxRegion == 4       \* largest device buffer, in bytes
MaxLength == 9       \* largest logical element count of a column
MaxCols == 2         \* most schema nodes in one document

Min(a, b) == IF a < b THEN a ELSE b
Max(a, b) == IF a > b THEN a ELSE b

(***************************************************************************)
(* Outcomes of a call: a returned value or a raised exception.             *)
(***************************************************************************)
Ok(v) == [ok |-> TRUE, val |-> v]
Raise(kind, msg) == [ok |-> FALSE, kind |-> kind, msg |-> msg]
NoExc == [kind |-> "none", msg |-> ""]

(***************************************************************************)
(* numpy dtypes and device arrays.                                         *)
(***************************************************************************)
DType(kind, bits) == [kind |-> kind, bits |-> bits]
itemsize(dtype) == dtype.bits \div 8

\* pygdf.utils.mask_dtype, the storage unit of validity bitmasks
mask_dtype == DType("uint", 8)

\* A one-dimensional device array over the buffer.
DeviceNDArray(shape, strides, dtype, base) ==
    [base |-> base, shape |-> shape, strides |-> strides, dtype |-> dtype]

size(arr) == arr.shape
nbytes(arr) == arr.shape * itemsize(arr.dtype)
\* The bytes of the buffer the array covers.
Bytes(arr) == {arr.base + k : k \in 0 .. (nbytes(arr) - 1)}

\* A slice bound as Python normalises it against a length n.
ClampIdx(i, n) == IF i < 0 THEN Max(i + n, 0) ELSE Min(i, n)

\* arr[start:stop] on a one-dimensional device array: a view, bounds clamped.
SliceRange(arr, start, stop) ==
    LET s == ClampIdx(start, arr.shape)
        e == ClampIdx(stop, arr.shape)
    IN  [arr EXCEPT !.base = arr.base + s * arr.strides,
                    !.shape = IF e > s THEN e - s ELSE 0]
\* arr[start:]
SliceFrom(arr, start) == SliceRange(arr, start, arr.shape)
\* arr[:stop]
SliceTo(arr, stop) == SliceRange(arr, 0, stop)

gpu_view_as(arr, dtype) ==
    LET strides == IF arr.dtype = dtype THEN arr.strides ELSE itemsize(dtype)
        shape == IF arr.dtype = dtype THEN arr.shape
                 ELSE size(arr) \div itemsize(dtype)
    IN  DeviceNDArray(shape, strides, dtype, arr.base)

(***************************************************************************)
(* _schema_to_dtype.  getattr(np, 'int{:d}'.format(bitwidth)) finds a type *)
(* only when the numpy build has an attribute of that name; otherwise      *)
(* getattr raises AttributeError.                                          *)
(***************************************************************************)
NumpyBase == {<<"float", 16>>, <<"float", 32>>, <<"float", 64>>,
              <<"int", 8>>, <<"int", 16>>, <<"int", 32>>, <<"int", 64>>}
\* np.float128 exists on some platforms only
NumpyBuilds == {NumpyBase, NumpyBase \cup {<<"float", 128>>}}

np_getattr(attrs, kind, bitwidth) ==
    IF <<kind, bitwidth>> \in attrs
    THEN Ok(DType(kind, bitwidth))
    ELSE Raise("AttributeError", "numpy")

_schema_to_dtype(attrs, name, bitwidth) ==
    IF name = "FloatingPoint" THEN np_getattr(attrs, "float", bitwidth)
    ELSE IF name = "Int" THEN np_getattr(attrs, "int", bitwidth)
    ELSE Raise("NotImplementedError", "unsupported type")

(***************************************************************************)
(* GpuArrowNodeReader.                                                     *)
(***************************************************************************)
_BufferDesc(offset, length) == [offset |-> offset, length |-> length]

GpuArrowNodeReader(region, desc) == [gpu_data |-> region, desc |-> desc]

\* data_raw without its size check: the clamped slice is returned as it is
data_raw_unchecked(node) ==
    LET sz == node.desc.data_buffer.length
        start == node.desc.data_buffer.offset
        stop == start + sz
    IN  Ok(SliceRange(node.gpu_data, start, stop))

data_raw(node) ==
    LET sz == node.desc.data_buffer.length
        start == node.desc.data_buffer.offset
        stop == start + sz
        ary == SliceRange(node.gpu_data, start, stop)
    IN  IF size(ary) # sz
        THEN Raise("ValueError", "data size mismatch")
        ELSE Ok(ary)

null_raw(node) ==
    LET sz == node.desc.null_buffer.length
        start == node.desc.null_buffer.offset
        stop == start + sz
        ary == SliceRange(node.gpu_data, start, stop)
    IN  IF size(ary) # sz
        THEN Raise("ValueError", "data size mismatch")
        ELSE Ok(ary)

data(node) ==
    LET end == node.desc.length * itemsize(node.desc.dtype)
        raw == data_raw(node)
    IN  IF raw.ok THEN Ok(gpu_view_as(SliceTo(raw.val, end), node.desc.dtype))
        ELSE raw

null(node) ==
    LET end == (node.desc.length \div 8) * itemsize(mask_dtype)
        raw == null_raw(node)
    IN  IF raw.ok THEN Ok(gpu_view_as(SliceTo(raw.val, end), mask_dtype))
        ELSE raw

(***************************************************************************)
(* The schema document.  A node of the decoded JSON is a dictionary; the   *)
(* keys a document leaves out are listed in `absent`, as paths             *)
(* ("length", "dtype.bitwidth").                                           *)
(***************************************************************************)
FieldPaths == {"name", "length", "null_count",
               "null_buffer", "null_buffer.offset", "null_buffer.length",
               "data_buffer", "data_buffer.offset", "data_buffer.length",
               "dtype", "dtype.name", "dtype.bitwidth"}

SchemaNode(name, length, null_count, null_buffer, data_buffer, dtype, absent) ==
    [name |-> name, length |-> length, null_count |-> null_count,
     null_buffer |-> null_buffer, data_buffer |-> data_buffer,
     dtype |-> dtype, absent |-> absent]

\* dctnode[key]
HasKey(dctnode, key) == key \notin dctnode.absent
\* _BufferDesc(**dctnode[key]) and _schema_to_dtype(**dctnode[key]) bind the
\* sub-dictionary's keys to the callee's parameters
HasArgs(dctnode, key, params) ==
    \A p \in params : HasKey(dctnode, p)

_NodeDesc(name, length, null_count, null_buffer, data_buffer, dtype) ==
    [name |-> name, length |-> length, null_count |-> null_count,
     null_buffer |-> null_buffer, data_buffer |-> data_buffer, dtype |-> dtype]

\* One iteration of _open's loop: the node reader built from dctnode, or the
\* exception building it raises.  The keyword arguments of _NodeDesc are
\* evaluated in the order they are written.
open_node(attrs, region, dctnode) ==
    IF ~HasKey(dctnode, "name") THEN Raise("KeyError", "name")
    ELSE IF ~HasKey(dctnode, "length") THEN Raise("KeyError", "length")
    ELSE IF ~HasKey(dctnode, "null_count") THEN Raise("KeyError", "null_count")
    ELSE IF ~HasKey(dctnode, "null_buffer") THEN Raise("KeyError", "null_buffer")
    ELSE IF ~HasArgs(dctnode, "null_buffer",
                     {"null_buffer.offset", "null_buffer.length"})
         THEN Raise("TypeError", "null_buffer")
    ELSE IF ~HasKey(dctnode, "data_buffer") THEN Raise("KeyError", "data_buffer")
    ELSE IF ~HasArgs(dctnode, "data_buffer",
                     {"data_buffer.offset", "data_buffer.length"})
         THEN Raise("TypeError", "data_buffer")
    ELSE IF ~HasKey(dctnode, "dtype") THEN Raise("KeyError", "dtype")
    ELSE IF ~HasArgs(dctnode, "dtype", {"dtype.name", "dtype.bitwidth"})
         THEN Raise("TypeError", "dtype")
    ELSE LET dt == _schema_to_dtype(attrs, dctnode.dtype.name,
                                    dctnode.dtype.bitwidth)
         IN  IF ~dt.ok THEN dt
             ELSE Ok(GpuArrowNodeReader(region,
                     _NodeDesc(dctnode.name, dctnode.length,
                               dctnode.null_count,
                               _BufferDesc(dctnode.null_buffer.offset,
                                           dctnode.null_buffer.length),
                               _BufferDesc(dctnode.data_buffer.offset,
                                           dctnode.data_buffer.length),
                               dt.val)))

(***************************************************************************)
(* GpuArrowReader: the sequence protocol and to_dict.                      *)
(***************************************************************************)
__len__(nodes) == Len(nodes)

\* indexing that wraps every index around the length instead of bounding it
getitem_wrapping(nodes, idx) ==
    LET n == Len(nodes)
    IN  IF n > 0 THEN Ok(nodes[(idx % n) + 1])
        ELSE Raise("IndexError", "list index out of range")

\* list indexing: a negative index counts from the end
__getitem__(nodes, idx) ==
    LET n == Len(nodes)
    IN  IF 0 <= idx /\ idx < n THEN Ok(nodes[idx + 1])
        ELSE IF -n <= idx /\ idx < 0 THEN Ok(nodes[n + idx + 1])
        ELSE Raise("IndexError", "list index out of range")

\* dc[key] = value on an OrderedDict kept as a sequence of <<key, value>>
OrderedDictSet(dc, key, value) ==
    IF \E i \in 1 .. Len(dc) : dc[i][1] = key
    THEN [i \in 1 .. Len(dc) |->
             IF dc[i][1] = key THEN <<key, value>> ELSE dc[i]]
    ELSE Append(dc, <<key, value>>)

\* Series.from_masked_array and Series.from_array, kept as the call made
from_masked_array(d, m, null_count) ==
    [ctor |-> "from_masked_array", data |-> d, mask |-> m,
     null_count |-> null_count]
from_array(d) == [ctor |-> "from_array", data |-> d]

\* The column to_dict realises from one node, with the accessors it
\* evaluated on the way: node.data first, node.null second.
to_series(node) ==
    IF node.desc.null_count # 0
    THEN LET d == data(node)
             m == null(node)
         IN  IF ~d.ok THEN [out |-> d, evaluated |-> <<"data">>]
             ELSE IF ~m.ok THEN [out |-> m, evaluated |-> <<"data", "null">>]
             ELSE [out |-> Ok(from_masked_array(d.val, m.val,
                                                node.desc.null_count)),
                   evaluated |-> <<"data", "null">>]
    ELSE LET d == data(node)
         IN  IF ~d.ok THEN [out |-> d, evaluated |-> <<"data">>]
             ELSE [out |-> Ok(from_array(d.val)), evaluated |-> <<"data">>]

\* to_dict's loop from node i on, given the dictionary and the accessor log
\* so far: the finished dictionary or the exception that ended the loop.
RECURSIVE to_dict_from(_, _, _, _)
to_dict_from(nodes, i, dc, log) ==
    IF i > Len(nodes) THEN [out |-> Ok(dc), log |-> log]
    ELSE LET sr == to_series(nodes[i])
             log2 == Append(log, sr.evaluated)
         IN  IF ~sr.out.ok THEN [out |-> sr.out, log |-> log2]
             ELSE to_dict_from(nodes, i + 1,
                               OrderedDictSet(dc, nodes[i].desc.name,
                                              sr.out.val),
                               log2)

to_dict(nodes) == to_dict_from(nodes, 1, <<>>, <<>>)

(***************************************************************************)
(* open_parser: the context manager around the parse.  Its generator has   *)
(* no try/finally around the yield, so an exception raised in the with     *)
(* block is thrown into the generator at the yield and leaves it there:    *)
(* gdf_ipc_parser_close runs only when the block ends normally.            *)
(***************************************************************************)
open_parser_exit(res, raised) ==
    IF raised THEN res ELSE "closed"
open_parser_exit_calls(c, raised) ==
    IF raised THEN c ELSE [c EXCEPT !.close = @ + 1]

\* ffi.string(raw_error).decode(): the Python string of the text libgdf holds
\* as a NUL-terminated UTF-8 C string.  A message is kept as the text itself,
\* which the two steps hand over unchanged.
decode(text) == text

\* int(ffi.cast('uint64_t', dataoffset)): the parser's offset is an unsigned
\* 64-bit quantity, which the cast returns as it is
cast_uint64(n) == n

(***************************************************************************)
(* Inputs: the device buffer, the numpy build and the parser's report.     *)
(***************************************************************************)
Messages == {"bad magic", "truncated stream"}
Names == {"a", "b"}
TypeNames == {"FloatingPoint", "Int", "Decimal", "Bool"}
BitWidths == {8, 16, 32, 64, 128}

Buffer(o, l) == [offset |-> o, length |-> l]
SchemaType(n, w) == [name |-> n, bitwidth |-> w]

IpcFailure(m) ==
    [failed |-> TRUE, error |-> m, json_ok |-> FALSE, nodelist |-> <<>>,
     dataoffset |-> 0]
IpcBadJson ==
    [failed |-> FALSE, error |-> "", json_ok |-> FALSE, nodelist |-> <<>>,
     dataoffset |-> 0]
IpcSchema(nodelist, dataoffset) ==
    [failed |-> FALSE, error |-> "", json_ok |-> TRUE, nodelist |-> nodelist,
     dataoffset |-> dataoffset]

Input(region, attrs, report) ==
    [gpu_data |-> region, numpy_attrs |-> attrs, ipc |-> report]

ByteBuffer(n, dt) == DeviceNDArray(n, 1, dt, 0)

\* Documents of up to MaxCols well-formed columns: names repeat and come in
\* any order.
OrderNodes ==
    {SchemaNode(n, 1, nc, Buffer(0, 1), Buffer(0, MaxRegion), t, {}) :
        n \in Names, nc \in {0, 1},
        t \in {SchemaType("Int", 8), SchemaType("Int", 32)}}
OrderDocs == UNION {[1 .. k -> OrderNodes] : k \in 0 .. MaxCols}

\* Documents with a node that leaves a key out or names any type.
GoodNode ==
    SchemaNode("a", 1, 0, Buffer(0, 0), Buffer(0, 1), SchemaType("Int", 8), {})
OddNodes ==
    {[GoodNode EXCEPT !.absent = {p}] : p \in FieldPaths}
    \cup {[GoodNode EXCEPT !.dtype = SchemaType(t, w)] :
            t \in TypeNames, w \in BitWidths}
OddDocs == {<<m>> : m \in OddNodes} \cup {<<GoodNode, m>> : m \in OddNodes}

\* One well-formed column whose buffers range over the windows in and around
\* the data region: every data window with two null windows, and every null
\* window with two data windows.
Windows == {Buffer(o, l) : o \in 0 .. MaxRegion + 1, l \in 0 .. MaxRegion + 1}
WindowPairs ==
    {<<d, n>> : d \in Windows, n \in {Buffer(0, 0), Buffer(0, 1)}}
    \cup {<<d, n>> : d \in {Buffer(0, 0), Buffer(0, MaxRegion)}, n \in Windows}
ViewNodes ==
    {SchemaNode("a", len, nc, w[2], w[1], t, {}) :
        len \in 0 .. MaxLength, nc \in {0, 1}, w \in WindowPairs,
        t \in {SchemaType("Int", 8), SchemaType("Int", 16)}}
\* <<buffer size, data offset, dtype of the buffer>>
Regions ==
    {<<n, 0, DType("int", 8)>> : n \in 0 .. MaxRegion}
    \cup {<<MaxRegion, 1, DType("int", 8)>>, <<MaxRegion, 0, DType("uint", 8)>>}

\* Inputs of the constructor's own paths: a failed parse, a JSON text that
\* does not decode, documents of several columns, documents with an odd node.
Inputs ==
    {Input(ByteBuffer(MaxRegion, DType("int", 8)), NumpyBase, IpcFailure(m)) :
        m \in Messages}
    \cup {Input(ByteBuffer(MaxRegion, DType("int", 8)), NumpyBase, IpcBadJson)}
    \cup {Input(ByteBuffer(MaxRegion, DType("int", 8)), NumpyBase,
                IpcSchema(doc, off)) : doc \in OrderDocs, off \in {0, 1}}
    \cup {Input(ByteBuffer(MaxRegion, DType("int", 8)), attrs,
                IpcSchema(doc, 0)) : doc \in OddDocs, attrs \in NumpyBuilds}

\* Inputs of the accessors: one column over every region and window.
ViewInputs ==
    {Input(ByteBuffer(r[1], r[3]), NumpyBase, IpcSchema(<<v>>, r[2])) :
        r \in Regions, v \in ViewNodes}

NoCalls ==
    [open |-> 0, close |-> 0, failed |-> 0, get_error |-> 0, to_json |-> 0,
     get_data_offset |-> 0]

\* The state as __init__ is entered with one of the inputs.
Construct(inputs) ==
    /\ \E in \in inputs :
          /\ gpu_data = in.gpu_data
          /\ numpy_attrs = in.numpy_attrs
          /\ ipc = in.ipc
    /\ parser = "none"
    /\ calls = NoCalls
    /\ pc = "start"
    /\ cursor = 1
    /\ outdct = <<>>
    /\ dataptr = gpu_data
    /\ _nodes = <<>>
    /\ exc = NoExc
    /\ ret = [op |-> "none"]

Init == Construct(Inputs)
InitView == Construct(ViewInputs)

(***************************************************************************)
(* GpuArrowReader.__init__: _open and _parse_metdata, one step per call    *)
(* into libgdf and one per iteration of _open's loop.                      *)
(***************************************************************************)
\* libgdf.gdf_ipc_parser_open(devptr), entering the with block
ParserOpen ==
    /\ pc = "start"
    /\ parser' = "open"
    /\ calls' = [calls EXCEPT !.open = @ + 1]
    /\ pc' = "opened"
    /\ UNCHANGED <<gpu_data, numpy_attrs, ipc, cursor, outdct, dataptr,
                   _nodes, exc, ret>>

\* the check for failure left out: the parse goes on to read the JSON
CheckFailed_ignored ==
    /\ pc = "opened"
    /\ calls' = [calls EXCEPT !.failed = @ + 1]
    /\ pc' = "to_json"
    /\ UNCHANGED <<gpu_data, numpy_attrs, ipc, parser, exc, cursor, outdct,
                   dataptr, _nodes, ret>>

\* the check for failure: raise MetadataParsingError(error) out of the block
CheckFailed ==
    /\ pc = "opened"
    /\ IF ipc.failed
       THEN /\ calls' = open_parser_exit_calls(
                           [calls EXCEPT !.failed = @ + 1,
                                         !.get_error = @ + 1], TRUE)
            /\ parser' = open_parser_exit(parser, TRUE)
            /\ exc' = [kind |-> "MetadataParsingError",
                       msg |-> decode(ipc.error)]
            /\ pc' = "raised"
       ELSE /\ calls' = [calls EXCEPT !.failed = @ + 1]
            /\ pc' = "to_json"
            /\ UNCHANGED <<parser, exc>>
    /\ UNCHANGED <<gpu_data, numpy_attrs, ipc, cursor, outdct, dataptr,
                   _nodes, ret>>

\* gdf_ipc_parser_to_json and json.loads
ToJson ==
    /\ pc = "to_json"
    /\ IF ipc.json_ok
       THEN /\ calls' = [calls EXCEPT !.to_json = @ + 1]
            /\ outdct' = ipc.nodelist
            /\ pc' = "get_offset"
            /\ UNCHANGED <<parser, exc>>
       ELSE /\ calls' = open_parser_exit_calls(
                           [calls EXCEPT !.to_json = @ + 1], TRUE)
            /\ parser' = open_parser_exit(parser, TRUE)
            /\ exc' = [kind |-> "JSONDecodeError", msg |-> "json"]
            /\ pc' = "raised"
            /\ UNCHANGED outdct
    /\ UNCHANGED <<gpu_data, numpy_attrs, ipc, cursor, dataptr, _nodes, ret>>

\* gdf_ipc_parser_get_data_offset, the slice of the data region, and the
\* normal end of the with block
GetDataOffset ==
    /\ pc = "get_offset"
    /\ dataptr' = SliceFrom(gpu_data, cast_uint64(ipc.dataoffset))
    /\ calls' = open_parser_exit_calls(
                   [calls EXCEPT !.get_data_offset = @ + 1], FALSE)
    /\ parser' = open_parser_exit(parser, FALSE)
    /\ pc' = "build"
    /\ UNCHANGED <<gpu_data, numpy_attrs, ipc, cursor, outdct, _nodes, exc,
                   ret>>

\* the loop inserting each node at the front of _nodes instead of appending
OpenNode_prepend ==
    /\ pc = "build"
    /\ cursor <= Len(outdct)
    /\ LET r == open_node(numpy_attrs, dataptr, outdct[cursor])
       IN  IF r.ok
           THEN /\ _nodes' = <<r.val>> \o _nodes
                /\ cursor' = cursor + 1
                /\ UNCHANGED <<pc, exc>>
           ELSE /\ exc' = [kind |-> r.kind, msg |-> r.msg]
                /\ pc' = "raised"
                /\ UNCHANGED <<_nodes, cursor>>
    /\ UNCHANGED <<gpu_data, numpy_attrs, ipc, parser, calls, outdct, dataptr,
                   ret>>

\* one iteration of `for dctnode in nodelist`
OpenNode ==
    /\ pc = "build"
    /\ cursor <= Len(outdct)
    /\ LET r == open_node(numpy_attrs, dataptr, outdct[cursor])
       IN  IF r.ok
           THEN /\ _nodes' = Append(_nodes, r.val)
                /\ cursor' = cursor + 1
                /\ UNCHANGED <<pc, exc>>
           ELSE /\ exc' = [kind |-> r.kind, msg |-> r.msg]
                /\ pc' = "raised"
                /\ UNCHANGED <<_nodes, cursor>>
    /\ UNCHANGED <<gpu_data, numpy_attrs, ipc, parser, calls, outdct, dataptr,
                   ret>>

\* the loop is exhausted: __init__ returns the reader
OpenDone ==
    /\ pc = "build"
    /\ cursor > Len(outdct)
    /\ pc' = "ready"
    /\ UNCHANGED <<gpu_data, numpy_attrs, ipc, parser, calls, cursor, outdct,
                   dataptr, _nodes, exc, ret>>

(***************************************************************************)
(* The public API of a constructed reader.                                 *)
(***************************************************************************)
frame == <<gpu_data, numpy_attrs, ipc, parser, calls, pc, cursor, outdct,
           dataptr, _nodes, exc>>

CallLen ==
    /\ pc = "ready"
    /\ ret' = [op |-> "len", out |-> Ok(__len__(_nodes))]
    /\ UNCHANGED frame

CallGetItem ==
    /\ pc = "ready"
    /\ \E idx \in -(MaxCols + 1) .. (MaxCols + 1) :
          ret' = [op |-> "getitem", idx |-> idx, out |-> __getitem__(_nodes, idx)]
    /\ UNCHANGED frame

CallDataRaw ==
    /\ pc = "ready"
    /\ \E i \in 1 .. Len(_nodes) :
          ret' = [op |-> "data_raw", col |-> i, out |-> data_raw(_nodes[i])]
    /\ UNCHANGED frame

CallNullRaw ==
    /\ pc = "ready"
    /\ \E i \in 1 .. Len(_nodes) :
          ret' = [op |-> "null_raw", col |-> i, out |-> null_raw(_nodes[i])]
    /\ UNCHANGED frame

CallData ==
    /\ pc = "ready"
    /\ \E i \in 1 .. Len(_nodes) :
          ret' = [op |-> "data", col |-> i, out |-> data(_nodes[i])]
    /\ UNCHANGED frame

CallNull ==
    /\ pc = "ready"
    /\ \E i \in 1 .. Len(_nodes) :
          ret' = [op |-> "null", col |-> i, out |-> null(_nodes[i])]
    /\ UNCHANGED frame

CallToDict ==
    /\ pc = "ready"
    /\ LET r == to_dict(_nodes)
       IN  ret' = [op |-> "to_dict", out |-> r.out, log |-> r.log]
    /\ UNCHANGED frame

Next ==
    \/ ParserOpen
    \/ CheckFailed
    \/ ToJson
    \/ GetDataOffset
    \/ OpenNode
    \/ OpenDone
    \/ CallLen
    \/ CallGetItem
    \/ CallDataRaw
    \/ CallNullRaw
    \/ CallData
    \/ CallNull
    \/ CallToDict

Spec == Init /\ [][Next]_vars

\* The accessors of one column, over every region and window.
NextView ==
    \/ ParserOpen
    \/ CheckFailed
    \/ ToJson
    \/ GetDataOffset
    \/ OpenNode
    \/ OpenDone
    \/ CallDataRaw
    \/ CallNullRaw
    \/ CallData
    \/ CallNull
    \/ CallToDict

SpecView == InitView /\ [][NextView]_vars

(***************************************************************************)
(* Properties.                                                             *)
(***************************************************************************)
\* Control has left _parse_metdata, by its return or by an exception.
LeftParse == pc \in {"build", "ready", "raised"}

\* C1: once the parser has been opened it is closed before control leaves
\* _parse_metdata, whether the parse succeeded, the parser reported failure
\* or the JSON text did not decode.
C1_ParserClosedOnExit ==
    (LeftParse /\ calls.open > 0) => (parser = "closed" /\ calls.close = 1)

\* C5: the parser is opened exactly once, and when it reports failure with
\* message m the constructor raises MetadataParsingError(m), reads neither the
\* JSON nor the data offset from the parser and builds no node.
C5_FailedParse ==
    /\ calls.open <= 1
    /\ pc # "start" => calls.open = 1
    /\ ipc.failed =>
          /\ pc \in {"start", "opened", "raised"}
          /\ calls.to_json = 0 /\ calls.get_data_offset = 0
          /\ _nodes = <<>>
          /\ pc = "raised" =>
                exc = [kind |-> "MetadataParsingError", msg |-> ipc.error]
C5_Witness ==
    /\ pc = "raised" /\ ipc.failed /\ ipc.error = "bad magic"
    /\ exc.kind = "MetadataParsingError" /\ calls.open = 1

\* The element type a schema type of the recognised table stands for.
TableType(t) ==
    DType(IF t.name = "Int" THEN "int" ELSE "float", t.bitwidth)
InTable(t) ==
    \/ t.name = "FloatingPoint" /\ t.bitwidth \in {32, 64}
    \/ t.name = "Int" /\ t.bitwidth \in {8, 16, 32, 64}

\* The column a node reader presents, set against a schema node.
SameColumn(node, dctnode) ==
    /\ node.desc.name = dctnode.name
    /\ node.desc.null_count = dctnode.null_count
    /\ node.desc.dtype = TableType(dctnode.dtype)

\* C9: a reader constructed from a document of n nodes has length n and its
\* i-th column is the one built from the i-th node, whatever the order of the
\* names and also when names repeat.
C9_ParseOrder ==
    /\ pc = "ready" =>
          /\ Len(_nodes) = Len(ipc.nodelist)
          /\ \A i \in 1 .. Len(_nodes) : SameColumn(_nodes[i], ipc.nodelist[i])
    /\ ret.op = "len" => ret.out.val = Len(ipc.nodelist)
    /\ (ret.op = "getitem" /\ 0 <= ret.idx /\ ret.idx < Len(ipc.nodelist)) =>
          /\ ret.out.ok
          /\ SameColumn(ret.out.val, ipc.nodelist[ret.idx + 1])
C9_Witness ==
    /\ pc = "ready" /\ Len(ipc.nodelist) = 2
    /\ ipc.nodelist[1].name = "b" /\ ipc.nodelist[2].name = "a"
    /\ ipc.nodelist[1].dtype # ipc.nodelist[2].dtype
    /\ ret.op = "getitem" /\ ret.idx = 1 /\ ret.out.ok
    /\ ret.out.val.desc.name = "a"

\* C3 as claimed: every index outside [0, count), the negative ones included,
\* raises IndexError, and every index inside returns a column.
C3_Original ==
    ret.op = "getitem" =>
        IF 0 <= ret.idx /\ ret.idx < Len(_nodes)
        THEN ret.out.ok
        ELSE ~ret.out.ok /\ ret.out.kind = "IndexError"

\* C3 amended: an index i with i >= count or i < -count raises IndexError; an
\* index in [0, count) returns the column at that position and an index in
\* [-count, 0) the column at position count + i.
C3_GetItem ==
    ret.op = "getitem" =>
        LET n == Len(_nodes)
            i == ret.idx
        IN  /\ (i >= n \/ i < -n) =>
                  (~ret.out.ok /\ ret.out.kind = "IndexError")
            /\ (0 <= i /\ i < n) => (ret.out.ok /\ ret.out.val = _nodes[i + 1])
            /\ (-n <= i /\ i < 0) =>
                  (ret.out.ok /\ ret.out.val = _nodes[n + i + 1])
C3_Witness ==
    /\ ret.op = "getitem" /\ Len(_nodes) >= 1 /\ ret.idx = Len(_nodes)
    /\ ~ret.out.ok /\ ret.out.kind = "IndexError"

\* The schema node at which _open's loop raised.
RaisedInOpen == pc = "raised" /\ calls.close = 1

\* C4: type resolution returns an element type for the pairs of the table
\* (FloatingPoint 32 and 64, Int 8, 16, 32 and 64) only, and for every other
\* pair, unknown kind or unsupported width, raises the unsupported-type error.
C4_TypeResolution ==
    \A i \in 1 .. Len(outdct) :
        outdct[i].absent = {} =>
            IF InTable(outdct[i].dtype)
            THEN i <= Len(_nodes) =>
                    _nodes[i].desc.dtype = TableType(outdct[i].dtype)
            ELSE /\ i > Len(_nodes)
                 /\ (RaisedInOpen /\ cursor = i) =>
                        exc.kind = "NotImplementedError"

\* C8: a schema node that lacks a required key makes the constructor raise
\* MetadataParsingError and no other kind of error.
C8_MissingField ==
    /\ (RaisedInOpen /\ outdct[cursor].absent # {}) =>
          exc.kind = "MetadataParsingError"
    /\ pc = "ready" => \A i \in 1 .. Len(outdct) : outdct[i].absent = {}

\* The bytes of the window [offset, offset + length) of the data region.
Window(offset, length) ==
    {dataptr.base + k : k \in offset .. (offset + length - 1)}

\* The accessor call `ret` reports, on the one column it was made on.
RetNode == _nodes[ret.col]
RetBuffer ==
    IF ret.op \in {"data_raw", "data"} THEN RetNode.desc.data_buffer
    ELSE RetNode.desc.null_buffer
Inside(buf) == buf.offset + buf.length <= size(dataptr)

C6_TruncatedViews ==
    (/\ ret.op \in {"data", "null"}
     /\ RetNode.desc.null_count > 0
     /\ Inside(RetNode.desc.data_buffer)
     /\ Inside(RetNode.desc.null_buffer)) =>
        LET logical ==
                IF ret.op = "data"
                THEN RetNode.desc.length * itemsize(RetNode.desc.dtype)
                ELSE (RetNode.desc.length \div 8) * itemsize(mask_dtype)
        IN  /\ ret.out.ok
            /\ nbytes(ret.out.val) = logical
            /\ Bytes(ret.out.val) = Window(RetBuffer.offset, logical)

\* The column to_dict stored under the name of node i.
Realized(dc, name) ==
    LET i == CHOOSE k \in 1 .. Len(dc) : dc[k][1] = name
    IN  dc[i][2]
LastOfName(i) ==
    \A j \in (i + 1) .. Len(_nodes) : _nodes[j].desc.name # _nodes[i].desc.name

\* C7: to_dict builds a column with null_count = 0 from its typed data view
\* alone, never evaluating the null accessor, and that view has exactly
\* `length` elements of the resolved dtype; it builds a column with
\* null_count > 0 from its data view, its null view and its null count.
C7_ToDict ==
    (ret.op = "to_dict" /\ ret.out.ok) =>
        \A i \in 1 .. Len(_nodes) :
            LET d == _nodes[i].desc
                sr == Realized(ret.out.val, d.name)
            IN  IF d.null_count = 0
                THEN /\ ret.log[i] = <<"data">>
                     /\ LastOfName(i) =>
                           /\ sr.ctor = "from_array"
                           /\ sr.data.shape = d.length
                           /\ sr.data.dtype = d.dtype
                ELSE d.null_count > 0 =>
                     /\ ret.log[i] = <<"data", "null">>
                     /\ LastOfName(i) =>
                           /\ sr.ctor = "from_masked_array"
                           /\ sr.data = data(_nodes[i]).val
                           /\ sr.mask = null(_nodes[i]).val
                           /\ sr.null_count = d.null_count

\* C10: the null accessor drops whole trailing padding bytes only: its view
\* keeps every byte of the raw null buffer that holds the validity bit of an
\* element in [0, length), the final partial byte included.
C10_NullKeepsValidityBytes ==
    (ret.op = "null" /\ ret.out.ok) =>
        \A e \in 0 .. (RetNode.desc.length - 1) :
            (e \div 8) < RetBuffer.length =>
                (dataptr.base + RetBuffer.offset + (e \div 8))
                    \in Bytes(ret.out.val)

====
